---- MODULE Spec2Model ----
(***************************************************************************)
(* PyVNA: the VNA facade of src/vna.py.  Every method formats one SCPI     *)
(* command string and hands it to the VISA session's write or query.       *)
(*                                                                         *)
(* A Python string is a sequence of one-character strings, so that an      *)
(* f-string is a concatenation and two commands are equal exactly when     *)
(* they are the same text.                                                 *)
(***************************************************************************)
EXTENDS Integers, Sequences, FiniteSets, TLC

\* Largest channel index, trace index and port number passed to a method.
MaxCh == 2
MaxTr == 2
MaxPort == 2

Channels == 1..MaxCh
Traces == 1..MaxTr
Ports == 1..MaxPort

None == [t |-> "None"]

(***************************************************************************)
(* Python values passed as the value argument, and str() of them as an     *)
(* f-string field renders them.                                            *)
(***************************************************************************)
PyStr(s) == [t |-> "str", s |-> s]
PyInt(n) == [t |-> "int", n |-> n]
\* the float whole.tenth (one decimal digit), e.g. PyFloat(1000000000, 0) is 1e9
PyFloat(whole, tenth) == [t |-> "float", whole |-> whole, tenth |-> tenth]

Digit(d) == CASE d = 0 -> "0" [] d = 1 -> "1" [] d = 2 -> "2" [] d = 3 -> "3"
              [] d = 4 -> "4" [] d = 5 -> "5" [] d = 6 -> "6" [] d = 7 -> "7"
              [] d = 8 -> "8" [] d = 9 -> "9"

RECURSIVE str_nat(_)
str_nat(n) == IF n < 10 THEN <<Digit(n)>> ELSE str_nat(n \div 10) \o <<Digit(n % 10)>>

\* str(int): decimal digits, "-" in front of a negative number
str_int(n) == IF n < 0 THEN <<"-">> \o str_nat(-n) ELSE str_nat(n)

\* variant: a whole float rendered like an int, without ".0"
str_float_as_int(whole, tenth) ==
    IF tenth = 0 THEN str_int(whole) ELSE str_int(whole) \o <<".">> \o <<Digit(tenth)>>
\* str(float) of a float below 1e16 with one decimal digit: repr keeps the ".0"
str_float(whole, tenth) == str_int(whole) \o <<".">> \o <<Digit(tenth)>>

\* what an f-string replacement field {v} renders
fstr(v) == CASE v.t = "str" -> v.s
               [] v.t = "int" -> str_int(v.n)
               [] v.t = "float" -> str_float(v.whole, v.tenth)
               [] v.t = "None" -> <<"N", "o", "n", "e">>

isinstance_str(v) == v.t = "str"

QMark == PyStr(<<"?">>)

\* value arguments tried: the sentinel, a string that only contains "?", the float 1e9
Values == {QMark, PyStr(<<"O", "N", "?">>), PyFloat(1000000000, 0)}

\* the typ arguments of cal tried
CalTypes == {PyStr(<<"O", "P", "E", "N">>), PyStr(<<"I", "S", "O", "L">>)}

(***************************************************************************)
(* The transport: a VISA session with write, query and close.              *)
(***************************************************************************)
Replies == {<<"1">>, <<"+", "1", ".", "0", "E", "+", "0", "0", "9">>}
\* the exception a failing transport call raises
Errors == {"VisaIOError"}
\* what Session.write returns when it succeeds
Written == [t |-> "written"]

write(cmd) == [call |-> "write", cmd |-> cmd]
query(cmd) == [call |-> "query", cmd |-> cmd]
session_close == [call |-> "close", cmd |-> <<>>]

OPC == <<"*", "O", "P", "C", "?">>

(***************************************************************************)
(* A method body: the transport calls it makes in order, whether it        *)
(* returns the result of its (last) call or nothing, and whether it ends   *)
(* with the assignment self._instr = None.                                 *)
(***************************************************************************)
Returning(step) == [steps |-> <<step>>, ret |-> "result", clear |-> FALSE]
Statements(steps) == [steps |-> steps, ret |-> "none", clear |-> FALSE]

close == [steps |-> <<session_close>>, ret |-> "none", clear |-> TRUE]

\* ACTIVE CH/TRACE
active_channel(ch) == Statements(<<write(<<":", "D", "I", "S", "P", ":", "W", "I", "N", "D">> \o str_int(ch) \o <<":", "A", "C", "T">>)>>)

active_trace(tr, ch) ==
    Statements(<<write(<<":", "C", "A", "L", "C">> \o str_int(ch) \o <<":", "P", "A", "R">> \o str_int(tr) \o <<":", "S", "E", "L">>)>>)

trace_number(num, ch) ==
    Statements(<<write(<<":", "C", "A", "L", "C">> \o str_int(ch) \o <<":", "P", "A", "R", ":", "C", "O", "U", "N", " ">> \o fstr(num))>>)

\* Frequency
freq_start(freq, ch) ==
    IF isinstance_str(freq) /\ freq = QMark
    THEN Returning(query(<<":", "S", "E", "N", "S">> \o str_int(ch) \o <<":", "F", "R", "E", "Q", ":", "S", "T", "A", "R", "?">>))
    ELSE Returning(write(<<":", "S", "E", "N", "S">> \o str_int(ch) \o <<":", "F", "R", "E", "Q", ":", "S", "T", "A", "R", " ">> \o fstr(freq)))

\* the query branch names the start frequency, STAR
freq_stop(freq, ch) ==
    IF isinstance_str(freq) /\ freq = QMark
    THEN Returning(query(<<":", "S", "E", "N", "S">> \o str_int(ch) \o <<":", "F", "R", "E", "Q", ":", "S", "T", "A", "R", "?">>))
    ELSE Returning(write(<<":", "S", "E", "N", "S">> \o str_int(ch) \o <<":", "F", "R", "E", "Q", ":", "S", "T", "O", "P", " ">> \o fstr(freq)))

freq_center(freq, ch) ==
    IF isinstance_str(freq) /\ freq = QMark
    THEN Returning(query(<<":", "S", "E", "N", "S">> \o str_int(ch) \o <<":", "F", "R", "E", "Q", ":", "C", "E", "N", "T", "?">>))
    ELSE Returning(write(<<":", "S", "E", "N", "S">> \o str_int(ch) \o <<":", "F", "R", "E", "Q", ":", "C", "E", "N", "T", " ">> \o fstr(freq)))

\* the query branch names channel 1 whatever ch is
freq_span(freq, ch) ==
    IF isinstance_str(freq) /\ freq = QMark
    THEN Returning(query(<<":", "S", "E", "N", "S", "1", ":", "F", "R", "E", "Q", ":", "S", "P", "A", "N", "?">>))
    ELSE Returning(write(<<":", "S", "E", "N", "S">> \o str_int(ch) \o <<":", "F", "R", "E", "Q", ":", "S", "P", "A", "N", " ">> \o fstr(freq)))

\* Sweep Setup
power(pwr, ch) ==
    IF isinstance_str(pwr) /\ pwr = QMark
    THEN Returning(query(<<":", "S", "O", "U", "R">> \o str_int(ch) \o <<":", "P", "O", "W", "?">>))
    ELSE Returning(write(<<":", "S", "O", "U", "R">> \o str_int(ch) \o <<":", "P", "O", "W", " ">> \o fstr(pwr)))

points(point, ch) ==
    IF isinstance_str(point) /\ point = QMark
    THEN Returning(query(<<":", "S", "E", "N", "S">> \o str_int(ch) \o <<":", "S", "W", "E", ":", "P", "O", "I", "N", "?">>))
    ELSE Returning(write(<<":", "S", "E", "N", "S">> \o str_int(ch) \o <<":", "S", "W", "E", ":", "P", "O", "I", "N", " ">> \o fstr(point)))

sweep_type(typ, ch) ==
    IF typ = QMark
    THEN Returning(query(<<":", "S", "E", "N", "S">> \o str_int(ch) \o <<":", "S", "W", "E", ":", "T", "Y", "P", "E", "?">>))
    ELSE Returning(write(<<":", "S", "E", "N", "S">> \o str_int(ch) \o <<":", "S", "W", "E", ":", "T", "Y", "P", "E", " ">> \o fstr(typ)))

segm_data(data, ch) ==
    IF data = QMark
    THEN Returning(query(<<":", "S", "E", "N", "S">> \o str_int(ch) \o <<":", "S", "E", "G", "M", ":", "D", "A", "T", "A", "?">>))
    ELSE Returning(write(<<":", "S", "E", "N", "S">> \o str_int(ch) \o <<":", "S", "E", "G", "M", ":", "D", "A", "T", "A", " ">> \o fstr(data)))

\* RESPONSE
\* variant: the set branch reads the value back after writing it
bandwidth_reads_back(bw, ch) ==
    IF isinstance_str(bw) /\ bw = QMark
    THEN Returning(query(<<":", "S", "E", "N", "S">> \o str_int(ch) \o <<":", "B", "A", "N", "D", "?">>))
    ELSE [steps |-> <<write(<<":", "S", "E", "N", "S">> \o str_int(ch) \o <<":", "B", "A", "N", "D", " ">> \o fstr(bw)),
                      query(<<":", "S", "E", "N", "S">> \o str_int(ch) \o <<":", "B", "A", "N", "D", "?">>)>>,
          ret |-> "result", clear |-> FALSE]
bandwidth(bw, ch) ==
    IF isinstance_str(bw) /\ bw = QMark
    THEN Returning(query(<<":", "S", "E", "N", "S">> \o str_int(ch) \o <<":", "B", "A", "N", "D", "?">>))
    ELSE Returning(write(<<":", "S", "E", "N", "S">> \o str_int(ch) \o <<":", "B", "A", "N", "D", " ">> \o fstr(bw)))

trace_num(num, ch) ==
    IF isinstance_str(num) /\ num = QMark
    THEN Returning(query(<<":", "C", "A", "L", "C">> \o str_int(ch) \o <<":", "P", "A", "R", ":", "C", "O", "U", "N", "?">>))
    ELSE Returning(write(<<":", "C", "A", "L", "C">> \o str_int(ch) \o <<":", "P", "A", "R", ":", "C", "O", "U", "N", " ">> \o fstr(num)))

\* the query branch is a plain string, not an f-string: "{ch}" is sent as written
window_layout(layout, ch) ==
    IF layout = QMark
    THEN Returning(query(<<":", "D", "I", "S", "P", ":", "W", "I", "N", "D", "{", "c", "h", "}", ":", "S", "P", "L", "?">>))
    ELSE Returning(write(<<":", "D", "I", "S", "P", ":", "W", "I", "N", "D">> \o str_int(ch) \o <<":", "S", "P", "L", " ">> \o fstr(layout)))

parameter(para, tr, ch) ==
    IF para = QMark
    THEN Returning(query(<<":", "C", "A", "L", "C">> \o str_int(ch) \o <<":", "P", "A", "R">> \o str_int(tr) \o <<":", "D", "E", "F", "?">>))
    ELSE Returning(write(<<":", "C", "A", "L", "C">> \o str_int(ch) \o <<":", "P", "A", "R">> \o str_int(tr) \o <<":", "D", "E", "F", " ">> \o fstr(para)))

format(form, tr, ch) ==
    IF form = QMark
    THEN Returning(query(<<":", "C", "A", "L", "C">> \o str_int(ch) \o <<":", "T", "R", "A", "C">> \o str_int(tr) \o <<":", "F", "O", "R", "M", "?">>))
    ELSE Returning(write(<<":", "C", "A", "L", "C">> \o str_int(ch) \o <<":", "T", "R", "A", "C">> \o str_int(tr) \o <<":", "F", "O", "R", "M", " ">> \o fstr(form)))

\* Calibration
cal_kit(kit, ch) ==
    IF kit = QMark
    THEN Returning(query(<<":", "S", "E", "N", "S">> \o str_int(ch) \o <<":", "C", "O", "R", "R", ":", "C", "O", "L", "L", ":", "C", "K", "I", "T", "?">>))
    ELSE Returning(write(<<":", "S", "E", "N", "S">> \o str_int(ch) \o <<":", "C", "O", "R", "R", ":", "C", "O", "L", "L", ":", "C", "K", "I", "T", " ">> \o fstr(kit)))

cal_meth(ports, ch) ==
    Returning(write(<<":", "S", "E", "N", "S">> \o str_int(ch) \o <<":", "C", "O", "R", "R", ":", "C", "O", "L", "L", ":", "M", "E", "T", "H", ":", "S", "O", "L", "T", "2", " ">> \o fstr(ports)))

\* variant: the write without the operation-complete poll
cal_open_no_poll(port, ch) ==
    Statements(<<write(<<":", "S", "E", "N", "S">> \o str_int(ch) \o <<":", "C", "O", "R", "R", ":", "C", "O", "L", "L", ":", "O", "P", "E", "N", " ">> \o str_int(port))>>)
cal_open(port, ch) ==
    Statements(<<write(<<":", "S", "E", "N", "S">> \o str_int(ch) \o <<":", "C", "O", "R", "R", ":", "C", "O", "L", "L", ":", "O", "P", "E", "N", " ">> \o str_int(port)),
                 query(OPC)>>)

cal_shor(port, ch) ==
    Statements(<<write(<<":", "S", "E", "N", "S">> \o str_int(ch) \o <<":", "C", "O", "R", "R", ":", "C", "O", "L", "L", ":", "S", "H", "O", "R", " ">> \o str_int(port)),
                 query(OPC)>>)

cal_load(port, ch) ==
    Statements(<<write(<<":", "S", "E", "N", "S">> \o str_int(ch) \o <<":", "C", "O", "R", "R", ":", "C", "O", "L", "L", ":", "L", "O", "A", "D", " ">> \o str_int(port)),
                 query(OPC)>>)

cal(typ, port, ch) ==
    Statements(<<write(<<":", "S", "E", "N", "S">> \o str_int(ch) \o <<":", "C", "O", "R", "R", ":", "C", "O", "L", "L", ":">> \o fstr(typ) \o <<" ">> \o str_int(port)),
                 query(OPC)>>)

\* variant: the poll between the two writes
cal_thru_polls_between(port1, port2, ch) ==
    Statements(<<write(<<":", "S", "E", "N", "S">> \o str_int(ch) \o <<":", "C", "O", "R", "R", ":", "C", "O", "L", "L", ":", "T", "H", "R", "U", " ">> \o str_int(port1) \o <<",">> \o str_int(port2)),
                 query(OPC),
                 write(<<":", "S", "E", "N", "S">> \o str_int(ch) \o <<":", "C", "O", "R", "R", ":", "C", "O", "L", "L", ":", "T", "H", "R", "U", " ">> \o str_int(port2) \o <<",">> \o str_int(port1))>>)
cal_thru(port1, port2, ch) ==
    Statements(<<write(<<":", "S", "E", "N", "S">> \o str_int(ch) \o <<":", "C", "O", "R", "R", ":", "C", "O", "L", "L", ":", "T", "H", "R", "U", " ">> \o str_int(port1) \o <<",">> \o str_int(port2)),
                 write(<<":", "S", "E", "N", "S">> \o str_int(ch) \o <<":", "C", "O", "R", "R", ":", "C", "O", "L", "L", ":", "T", "H", "R", "U", " ">> \o str_int(port2) \o <<",">> \o str_int(port1)),
                 query(OPC)>>)

cal_done(ch) == Statements(<<write(<<":", "S", "E", "N", "S">> \o str_int(ch) \o <<":", "C", "O", "R", "R", ":", "C", "O", "L", "L", ":", "S", "A", "V", "E">>)>>)

\* Save/Recall
save_type(stype) ==
    IF stype = QMark
    THEN Returning(query(<<":", "M", "M", "E", "M", ":", "S", "T", "O", "R", ":", "S", "T", "Y", "P", "?">>))
    ELSE Returning(write(<<":", "M", "M", "E", "M", ":", "S", "T", "O", "R", ":", "S", "T", "Y", "P", " ">> \o fstr(stype)))

mdir(folder) == Statements(<<write(<<":", "M", "M", "E", "M", ":", "M", "D", "I", "R", " ", "'">> \o fstr(folder) \o <<"'">>)>>)

stor_stat(file) == Statements(<<write(<<":", "M", "M", "E", "M", ":", "S", "T", "O", "R", " ", "'">> \o fstr(file) \o <<"'">>)>>)

load_stat(file) == Statements(<<write(<<":", "M", "M", "E", "M", ":", "L", "O", "A", "D", " ", "'">> \o fstr(file) \o <<"'">>)>>)

\* CALCULATE
calc_sdat(tr, ch) ==
    Returning(query(<<":", "C", "A", "L", "C">> \o str_int(ch) \o <<":", "T", "R", "A", "C">> \o str_int(tr) \o <<":", "D", "A", "T", "A", ":", "S", "D", "A", "T", "?">>))

calc_fdat(tr, ch) ==
    Returning(query(<<":", "C", "A", "L", "C">> \o str_int(ch) \o <<":", "T", "R", "A", "C">> \o str_int(tr) \o <<":", "D", "A", "T", "A", ":", "F", "D", "A", "T", "?">>))

calc_mfd(trs, ch) ==
    Returning(query(<<":", "C", "A", "L", "C">> \o str_int(ch) \o <<":", "T", "R", "A", "C", ":", "D", "A", "T", "A", ":", "M", "F", "D", "?", " ", "'">> \o fstr(trs) \o <<"'">>))

init_cont(status, ch) == Statements(<<write(<<":", "I", "N", "I", "T">> \o str_int(ch) \o <<":", "C", "O", "N", "T", " ">> \o fstr(status))>>)

trigger(ch) == Statements(<<write(<<":", "I", "N", "I", "T">> \o str_int(ch))>>)

\* Limit Test
limit_display(state, tr, ch) ==
    IF state = QMark
    THEN Returning(query(<<":", "C", "A", "L", "C">> \o str_int(ch) \o <<":", "T", "R", "A", "C">> \o str_int(tr) \o <<":", "L", "I", "M", ":", "D", "I", "S", "P", "?">>))
    ELSE Returning(write(<<":", "C", "A", "L", "C">> \o str_int(ch) \o <<":", "T", "R", "A", "C">> \o str_int(tr) \o <<":", "L", "I", "M", ":", "D", "I", "S", "P", " ">> \o fstr(state)))

limit_data(data, tr, ch) ==
    IF data = QMark
    THEN Returning(query(<<":", "C", "A", "L", "C">> \o str_int(ch) \o <<":", "T", "R", "A", "C">> \o str_int(tr) \o <<":", "L", "I", "M", ":", "D", "A", "T", "A", "?">>))
    ELSE Returning(write(<<":", "C", "A", "L", "C">> \o str_int(ch) \o <<":", "T", "R", "A", "C">> \o str_int(tr) \o <<":", "L", "I", "M", ":", "D", "A", "T", "A", " ">> \o fstr(data)))

\* IEEE4882
preset == Statements(<<write(<<":", "S", "Y", "S", "T", ":", "P", "R", "E", "S">>)>>)

(***************************************************************************)
(* State.  vna[i] is the attribute dictionary of facade object i (_rm and  *)
(* _instr, set by __init__); session[i] is the state of the VISA session   *)
(* that object opened; last is the most recent method call: its arguments, *)
(* the objects as they were when it was called, the transport calls it     *)
(* issued in order (ok = FALSE for the one that raised) and how it ended.  *)
(*  The trace of transport calls of a serialized *)
(* run is the concatenation of the calls of its method calls.              *)
(***************************************************************************)
VARIABLES vna, session, last

vars == <<vna, session, last>>

NoArg == "-"
Args(val, tr, ch, port1, port2) == [val |-> val, tr |-> tr, ch |-> ch, port1 |-> port1, port2 |-> port2]

Return(v) == [kind |-> "return", value |-> v]
Raise(e) == [kind |-> "raise", value |-> e]

\* __init__: a resource manager and the session it opened
init(i) == [_rm |-> [t |-> "ResourceManager", of |-> i], _instr |-> [t |-> "Session", of |-> i]]

\* the state after the objects in objs were constructed
Constructed(objs) ==
    /\ vna = [i \in objs |-> init(i)]
    /\ session = [i \in objs |-> "open"]
    /\ last = [inst |-> NoArg, method |-> "__init__", args |-> Args(NoArg, NoArg, NoArg, NoArg, NoArg),
               before |-> [i \in objs |-> init(i)], calls |-> <<>>, outcome |-> Return(None)]

(***************************************************************************)
(* How the transport may answer a method body: every call succeeds (a      *)
(* query then yields some reply), or call number failed raises some error  *)
(* and the calls after it are never made.                                  *)
(***************************************************************************)
HasQuery(steps) == \E n \in 1..Len(steps) : steps[n].call = "query"

Answers(steps) ==
    {[failed |-> 0, error |-> None, reply |-> r] :
        r \in IF HasQuery(steps) THEN Replies ELSE {None}}
    \cup {[failed |-> n, error |-> e, reply |-> None] : n \in 1..Len(steps), e \in Errors}

\* what a transport call that succeeds hands back
CallResult(step, ans) ==
    CASE step.call = "query" -> ans.reply
      [] step.call = "write" -> Written
      [] step.call = "close" -> None

\* the transport calls made, each with what it handed back or raised
Issued(steps, ans) ==
    [n \in 1..(IF ans.failed = 0 THEN Len(steps) ELSE ans.failed) |->
        [call |-> steps[n].call, cmd |-> steps[n].cmd, ok |-> n # ans.failed,
         result |-> IF n = ans.failed THEN ans.error ELSE CallResult(steps[n], ans)]]

\* variant: the reply of a query loses its first character before it is returned
Outcome_parses_reply(body, ans) ==
    IF ans.failed # 0 THEN Raise(ans.error)
    ELSE IF body.ret = "result"
         THEN Return(IF body.steps[Len(body.steps)].call = "query" THEN Tail(ans.reply) ELSE Written)
         ELSE Return(None)
\* how the method ends: the exception of the call that raised, else the result of
\* the call behind "return", else None
Outcome(body, ans) ==
    IF ans.failed # 0 THEN Raise(ans.error)
    ELSE IF body.ret = "result" THEN Return(CallResult(body.steps[Len(body.steps)], ans))
         ELSE Return(None)

\* variants: close never clears the handle; any failure drops the handle; a
\* completed call keeps its command in a new attribute
after_call_never_clears(self, body, raised) == self
after_call_drops_on_error(self, body, raised) ==
    IF raised \/ body.clear THEN [self EXCEPT !._instr = None] ELSE self
after_call_caches(self, body, raised) ==
    IF body.clear /\ ~raised THEN [self EXCEPT !._instr = None]
    ELSE IF ~raised THEN [a \in DOMAIN self \cup {"_last"} |-> IF a = "_last" THEN body.steps[1].cmd ELSE self[a]]
    ELSE self
\* the object's attributes after the body ran: close ends with self._instr = None,
\* which is not reached when a call before it raised
after_call(self, body, raised) ==
    IF body.clear /\ ~raised THEN [self EXCEPT !._instr = None] ELSE self

Closed(steps, ans) == \E n \in 1..Len(steps) : steps[n].call = "close" /\ ans.failed = 0

(***************************************************************************)
(* One method call on object i.  With _instr = None the attribute lookup   *)
(* self._instr.write / query / close raises AttributeError before anything *)
(* is formatted or sent.                                                   *)
(***************************************************************************)
Invoke(i, method, args, body) ==
    IF vna[i]._instr = None
    THEN /\ last' = [inst |-> i, method |-> method, args |-> args, before |-> vna,
                     calls |-> <<>>, outcome |-> Raise("AttributeError")]
         /\ UNCHANGED <<vna, session>>
    ELSE \E ans \in Answers(body.steps) :
         /\ last' = [inst |-> i, method |-> method, args |-> args, before |-> vna,
                     calls |-> Issued(body.steps, ans), outcome |-> Outcome(body, ans)]
         /\ vna' = [vna EXCEPT ![i] = after_call(@, body, ans.failed # 0)]
         /\ session' = IF Closed(body.steps, ans) THEN [session EXCEPT ![i] = "closed"] ELSE session

Call_close == \E i \in DOMAIN vna :
    Invoke(i, "close", Args(NoArg, NoArg, NoArg, NoArg, NoArg), close)
Call_active_channel == \E i \in DOMAIN vna, ch \in Channels :
    Invoke(i, "active_channel", Args(NoArg, NoArg, ch, NoArg, NoArg), active_channel(ch))
Call_active_trace == \E i \in DOMAIN vna, tr \in Traces, ch \in Channels :
    Invoke(i, "active_trace", Args(NoArg, tr, ch, NoArg, NoArg), active_trace(tr, ch))
Call_trace_number == \E i \in DOMAIN vna, num \in Values, ch \in Channels :
    Invoke(i, "trace_number", Args(num, NoArg, ch, NoArg, NoArg), trace_number(num, ch))
Call_freq_start == \E i \in DOMAIN vna, freq \in Values, ch \in Channels :
    Invoke(i, "freq_start", Args(freq, NoArg, ch, NoArg, NoArg), freq_start(freq, ch))
Call_freq_stop == \E i \in DOMAIN vna, freq \in Values, ch \in Channels :
    Invoke(i, "freq_stop", Args(freq, NoArg, ch, NoArg, NoArg), freq_stop(freq, ch))
Call_freq_center == \E i \in DOMAIN vna, freq \in Values, ch \in Channels :
    Invoke(i, "freq_center", Args(freq, NoArg, ch, NoArg, NoArg), freq_center(freq, ch))
Call_freq_span == \E i \in DOMAIN vna, freq \in Values, ch \in Channels :
    Invoke(i, "freq_span", Args(freq, NoArg, ch, NoArg, NoArg), freq_span(freq, ch))
Call_power == \E i \in DOMAIN vna, pwr \in Values, ch \in Channels :
    Invoke(i, "power", Args(pwr, NoArg, ch, NoArg, NoArg), power(pwr, ch))
Call_points == \E i \in DOMAIN vna, point \in Values, ch \in Channels :
    Invoke(i, "points", Args(point, NoArg, ch, NoArg, NoArg), points(point, ch))
Call_sweep_type == \E i \in DOMAIN vna, typ \in Values, ch \in Channels :
    Invoke(i, "sweep_type", Args(typ, NoArg, ch, NoArg, NoArg), sweep_type(typ, ch))
Call_segm_data == \E i \in DOMAIN vna, data \in Values, ch \in Channels :
    Invoke(i, "segm_data", Args(data, NoArg, ch, NoArg, NoArg), segm_data(data, ch))
Call_bandwidth == \E i \in DOMAIN vna, bw \in Values, ch \in Channels :
    Invoke(i, "bandwidth", Args(bw, NoArg, ch, NoArg, NoArg), bandwidth(bw, ch))
Call_trace_num == \E i \in DOMAIN vna, num \in Values, ch \in Channels :
    Invoke(i, "trace_num", Args(num, NoArg, ch, NoArg, NoArg), trace_num(num, ch))
Call_window_layout == \E i \in DOMAIN vna, layout \in Values, ch \in Channels :
    Invoke(i, "window_layout", Args(layout, NoArg, ch, NoArg, NoArg), window_layout(layout, ch))
Call_parameter == \E i \in DOMAIN vna, para \in Values, tr \in Traces, ch \in Channels :
    Invoke(i, "parameter", Args(para, tr, ch, NoArg, NoArg), parameter(para, tr, ch))
Call_format == \E i \in DOMAIN vna, form \in Values, tr \in Traces, ch \in Channels :
    Invoke(i, "format", Args(form, tr, ch, NoArg, NoArg), format(form, tr, ch))
Call_cal_kit == \E i \in DOMAIN vna, kit \in Values, ch \in Channels :
    Invoke(i, "cal_kit", Args(kit, NoArg, ch, NoArg, NoArg), cal_kit(kit, ch))
Call_cal_meth == \E i \in DOMAIN vna, ports \in Values, ch \in Channels :
    Invoke(i, "cal_meth", Args(ports, NoArg, ch, NoArg, NoArg), cal_meth(ports, ch))
Call_cal_open == \E i \in DOMAIN vna, port \in Ports, ch \in Channels :
    Invoke(i, "cal_open", Args(NoArg, NoArg, ch, port, NoArg), cal_open(port, ch))
Call_cal_shor == \E i \in DOMAIN vna, port \in Ports, ch \in Channels :
    Invoke(i, "cal_shor", Args(NoArg, NoArg, ch, port, NoArg), cal_shor(port, ch))
Call_cal_load == \E i \in DOMAIN vna, port \in Ports, ch \in Channels :
    Invoke(i, "cal_load", Args(NoArg, NoArg, ch, port, NoArg), cal_load(port, ch))
Call_cal == \E i \in DOMAIN vna, typ \in CalTypes, port \in Ports, ch \in Channels :
    Invoke(i, "cal", Args(typ, NoArg, ch, port, NoArg), cal(typ, port, ch))
Call_cal_thru == \E i \in DOMAIN vna, port1 \in Ports, port2 \in Ports, ch \in Channels :
    Invoke(i, "cal_thru", Args(NoArg, NoArg, ch, port1, port2), cal_thru(port1, port2, ch))
Call_cal_done == \E i \in DOMAIN vna, ch \in Channels :
    Invoke(i, "cal_done", Args(NoArg, NoArg, ch, NoArg, NoArg), cal_done(ch))
Call_save_type == \E i \in DOMAIN vna, stype \in Values :
    Invoke(i, "save_type", Args(stype, NoArg, NoArg, NoArg, NoArg), save_type(stype))
Call_mdir == \E i \in DOMAIN vna, folder \in Values :
    Invoke(i, "mdir", Args(folder, NoArg, NoArg, NoArg, NoArg), mdir(folder))
Call_stor_stat == \E i \in DOMAIN vna, file \in Values :
    Invoke(i, "stor_stat", Args(file, NoArg, NoArg, NoArg, NoArg), stor_stat(file))
Call_load_stat == \E i \in DOMAIN vna, file \in Values :
    Invoke(i, "load_stat", Args(file, NoArg, NoArg, NoArg, NoArg), load_stat(file))
Call_calc_sdat == \E i \in DOMAIN vna, tr \in Traces, ch \in Channels :
    Invoke(i, "calc_sdat", Args(NoArg, tr, ch, NoArg, NoArg), calc_sdat(tr, ch))
Call_calc_fdat == \E i \in DOMAIN vna, tr \in Traces, ch \in Channels :
    Invoke(i, "calc_fdat", Args(NoArg, tr, ch, NoArg, NoArg), calc_fdat(tr, ch))
Call_calc_mfd == \E i \in DOMAIN vna, trs \in Values, ch \in Channels :
    Invoke(i, "calc_mfd", Args(trs, NoArg, ch, NoArg, NoArg), calc_mfd(trs, ch))
Call_init_cont == \E i \in DOMAIN vna, status \in Values, ch \in Channels :
    Invoke(i, "init_cont", Args(status, NoArg, ch, NoArg, NoArg), init_cont(status, ch))
Call_trigger == \E i \in DOMAIN vna, ch \in Channels :
    Invoke(i, "trigger", Args(NoArg, NoArg, ch, NoArg, NoArg), trigger(ch))
Call_limit_display == \E i \in DOMAIN vna, state \in Values, tr \in Traces, ch \in Channels :
    Invoke(i, "limit_display", Args(state, tr, ch, NoArg, NoArg), limit_display(state, tr, ch))
Call_limit_data == \E i \in DOMAIN vna, data \in Values, tr \in Traces, ch \in Channels :
    Invoke(i, "limit_data", Args(data, tr, ch, NoArg, NoArg), limit_data(data, tr, ch))
Call_preset == \E i \in DOMAIN vna :
    Invoke(i, "preset", Args(NoArg, NoArg, NoArg, NoArg, NoArg), preset)

Init == Constructed({"vna1"})

InitTwo == Constructed({"vna1", "vna2"})

Next ==
    \/ Call_close
    \/ Call_active_channel
    \/ Call_active_trace
    \/ Call_trace_number
    \/ Call_freq_start
    \/ Call_freq_stop
    \/ Call_freq_center
    \/ Call_freq_span
    \/ Call_power
    \/ Call_points
    \/ Call_sweep_type
    \/ Call_segm_data
    \/ Call_bandwidth
    \/ Call_trace_num
    \/ Call_window_layout
    \/ Call_parameter
    \/ Call_format
    \/ Call_cal_kit
    \/ Call_cal_meth
    \/ Call_cal_open
    \/ Call_cal_shor
    \/ Call_cal_load
    \/ Call_cal
    \/ Call_cal_thru
    \/ Call_cal_done
    \/ Call_save_type
    \/ Call_mdir
    \/ Call_stor_stat
    \/ Call_load_stat
    \/ Call_calc_sdat
    \/ Call_calc_fdat
    \/ Call_calc_mfd
    \/ Call_init_cont
    \/ Call_trigger
    \/ Call_limit_display
    \/ Call_limit_data
    \/ Call_preset

\* one facade object
Spec == Init /\ [][Next]_vars

\* two facade objects, each with its own session
SpecTwo == InitTwo /\ [][Next]_vars

(***************************************************************************)
(* Vocabulary of the properties.                                           *)
(***************************************************************************)
GetOrSet == {"freq_start", "freq_stop", "freq_center", "freq_span", "power", "points",
             "sweep_type", "segm_data", "bandwidth", "trace_num", "window_layout",
             "parameter", "format", "cal_kit", "save_type", "limit_display", "limit_data"}
SetOnly == {"active_channel", "active_trace", "trace_number", "cal_meth", "cal_done",
            "mdir", "stor_stat", "load_stat", "init_cont", "trigger", "preset"}
DataOps == {"calc_sdat", "calc_fdat", "calc_mfd"}
CalSteps == {"cal_open", "cal_shor", "cal_load", "cal_thru", "cal"}
\* the methods with a ch parameter, and those with a tr parameter
TakesChannel == (GetOrSet \cup SetOnly \cup DataOps \cup CalSteps)
                    \ {"save_type", "mdir", "stor_stat", "load_stat", "preset"}
TakesTrace == {"active_trace", "parameter", "format", "calc_sdat", "calc_fdat",
               "limit_display", "limit_data"}

\* the body a get-or-set method runs with arguments a
BodyOf(method, a) ==
    CASE method = "freq_start" -> freq_start(a.val, a.ch)
      [] method = "freq_stop" -> freq_stop(a.val, a.ch)
      [] method = "freq_center" -> freq_center(a.val, a.ch)
      [] method = "freq_span" -> freq_span(a.val, a.ch)
      [] method = "power" -> power(a.val, a.ch)
      [] method = "points" -> points(a.val, a.ch)
      [] method = "sweep_type" -> sweep_type(a.val, a.ch)
      [] method = "segm_data" -> segm_data(a.val, a.ch)
      [] method = "bandwidth" -> bandwidth(a.val, a.ch)
      [] method = "trace_num" -> trace_num(a.val, a.ch)
      [] method = "window_layout" -> window_layout(a.val, a.ch)
      [] method = "parameter" -> parameter(a.val, a.tr, a.ch)
      [] method = "format" -> format(a.val, a.tr, a.ch)
      [] method = "cal_kit" -> cal_kit(a.val, a.ch)
      [] method = "save_type" -> save_type(a.val)
      [] method = "limit_display" -> limit_display(a.val, a.tr, a.ch)
      [] method = "limit_data" -> limit_data(a.val, a.tr, a.ch)

\* the header of a command: the text before its first space
RECURSIVE Header(_)
Header(cmd) == IF cmd = <<>> \/ Head(cmd) = " " THEN <<>> ELSE <<Head(cmd)>> \o Header(Tail(cmd))

StartsWith(cmd, prefix) == Len(cmd) >= Len(prefix) /\ SubSeq(cmd, 1, Len(prefix)) = prefix

Digits == {"0", "1", "2", "3", "4", "5", "6", "7", "8", "9"}

\* cmd starts with prefix and the character after it, if any, is not a digit
StartsWithIndex(cmd, prefix) ==
    /\ StartsWith(cmd, prefix)
    /\ Len(cmd) > Len(prefix) => cmd[Len(prefix) + 1] \notin Digits

\* the tokens that carry the channel index, and those that carry the trace index
ChannelTokens == {<<":", "S", "E", "N", "S">>, <<":", "C", "A", "L", "C">>, <<":", "D", "I", "S", "P", ":", "W", "I", "N", "D">>, <<":", "S", "O", "U", "R">>, <<":", "I", "N", "I", "T">>}
TraceTokens == {<<":", "P", "A", "R">>, <<":", "T", "R", "A", "C">>}

HasChannel(cmd, ch) == \E p \in ChannelTokens : StartsWithIndex(cmd, p \o str_int(ch))
HasTrace(cmd, tr, ch) ==
    \E q \in TraceTokens : StartsWithIndex(cmd, <<":", "C", "A", "L", "C">> \o str_int(ch) \o q \o str_int(tr))

\* the object of the last call still holds its session (so it held it when called)
Live == last.inst # NoArg /\ vna[last.inst]._instr # None
\* the last call found _instr = None
Dead == last.outcome = Raise("AttributeError")

QueryPath == (last.method \in GetOrSet /\ last.args.val = QMark) \/ last.method \in DataOps
WritePath == (last.method \in GetOrSet /\ last.args.val # QMark) \/ last.method \in SetOnly

\* C1: a get-or-set method called with "?" queries the header of the command its
\* set branch writes (the text before the space and the value), with "?" appended.
C1_QueryIsSetHeaderWithQMark ==
    (last.method \in GetOrSet /\ last.args.val = QMark /\ last.calls # <<>>) =>
        \A v \in Values \ {QMark} :
            last.calls[1].cmd =
                Header(BodyOf(last.method, [last.args EXCEPT !.val = v]).steps[1].cmd) \o <<"?">>

\* C2: every command of a method that takes ch (and tr) carries the passed ch right
\* after its channel token (:SENS, :CALC, :DISP:WIND, :SOUR, :INIT) and the passed tr
\* right after :PAR or :TRAC, in the set branch and in the "?" branch alike; the
\* poll *OPC? carries no index.
C2_IndicesInterpolated ==
    \A n \in 1..Len(last.calls) :
        (last.calls[n].call # "close" /\ last.calls[n].cmd # OPC) =>
            /\ last.method \in TakesChannel => HasChannel(last.calls[n].cmd, last.args.ch)
            /\ last.method \in TakesTrace => HasTrace(last.calls[n].cmd, last.args.tr, last.args.ch)

\* C3: a calibration step issues only acquisition writes :SENS<ch>:CORR:COLL:... and
\* then the query *OPC?; every write the transport completed is followed at once by
\* another write of the same step or by *OPC? (so no method call ends on a completed
\* acquisition write and the next method's command never follows one), the poll is
\* the last call and comes after at least one write, and the step returns only once
\* the poll has returned.  A write that raises ends the step (C10).
C3_CalStepPollsAfterWrite ==
    last.method \in CalSteps =>
        LET c == last.calls IN
        /\ \A n \in 1..Len(c) :
            /\ c[n].call \in {"write", "query"}
            /\ c[n].call = "write" =>
                /\ StartsWith(c[n].cmd, <<":", "S", "E", "N", "S">> \o str_int(last.args.ch) \o <<":", "C", "O", "R", "R", ":", "C", "O", "L", "L", ":">>)
                /\ c[n].ok => /\ n < Len(c)
                              /\ c[n + 1].call = "write" \/ (c[n + 1].call = "query" /\ c[n + 1].cmd = OPC)
            /\ c[n].call = "query" =>
                /\ c[n].cmd = OPC
                /\ n = Len(c)
                /\ n > 1
                /\ \A k \in 1..(n - 1) : c[k].call = "write" /\ c[k].ok
        /\ last.outcome.kind = "return" =>
            /\ Len(c) >= 2
            /\ c[Len(c)].call = "query" /\ c[Len(c)].cmd = OPC /\ c[Len(c)].ok
            /\ last.outcome = Return(None)

C3_Witness ==
    /\ last.method = "cal_open"
    /\ last.outcome.kind = "return"
    /\ Len(last.calls) = 2
    /\ last.calls[1].cmd = <<":", "S", "E", "N", "S", "2", ":", "C", "O", "R", "R", ":", "C", "O", "L", "L", ":", "O", "P", "E", "N", " ", "1">>

\* C4: the transport calls of cal_thru(p1, p2, ch) are a prefix of
\* write THRU p1,p2; write THRU p2,p1; query *OPC? (each call made only after the one
\* before it succeeded), and all three when the step returns.
ThruSequence(port1, port2, ch) ==
    << [call |-> "write", cmd |-> <<":", "S", "E", "N", "S">> \o str_int(ch) \o <<":", "C", "O", "R", "R", ":", "C", "O", "L", "L", ":", "T", "H", "R", "U", " ">>
                                  \o str_int(port1) \o <<",">> \o str_int(port2)],
       [call |-> "write", cmd |-> <<":", "S", "E", "N", "S">> \o str_int(ch) \o <<":", "C", "O", "R", "R", ":", "C", "O", "L", "L", ":", "T", "H", "R", "U", " ">>
                                  \o str_int(port2) \o <<",">> \o str_int(port1)],
       [call |-> "query", cmd |-> <<"*", "O", "P", "C", "?">>] >>

C4_CalThruTwoWritesThenPoll ==
    last.method = "cal_thru" =>
        LET c == last.calls
            expected == ThruSequence(last.args.port1, last.args.port2, last.args.ch) IN
        /\ Len(c) <= 3
        /\ \A n \in 1..Len(c) :
            /\ c[n].call = expected[n].call
            /\ c[n].cmd = expected[n].cmd
            /\ n < Len(c) => c[n].ok
        /\ last.outcome.kind = "return" => Len(c) = 3 /\ c[3].ok

C4_Witness ==
    /\ last.method = "cal_thru"
    /\ last.outcome.kind = "return"
    /\ last.args.port1 = 1 /\ last.args.port2 = 2
    /\ last.calls[1].cmd = <<":", "S", "E", "N", "S", "1", ":", "C", "O", "R", "R", ":", "C", "O", "L", "L", ":", "T", "H", "R", "U", " ", "1", ",", "2">>
    /\ last.calls[2].cmd = <<":", "S", "E", "N", "S", "1", ":", "C", "O", "R", "R", ":", "C", "O", "L", "L", ":", "T", "H", "R", "U", " ", "2", ",", "1">>
    /\ last.calls[3].cmd = <<"*", "O", "P", "C", "?">>

\* C5: when close returns, the handle of that object is None; once the handle is
\* None it stays None, and every later call on that object raises at once with no
\* transport call made and the session untouched.
C5_ClosedForGood ==
    [][\A i \in DOMAIN vna :
        /\ (last'.inst = i /\ last'.method = "close" /\ last'.outcome.kind = "return") =>
            vna'[i]._instr = None /\ session'[i] = "closed"
        /\ vna[i]._instr = None =>
            /\ vna'[i]._instr = None
            /\ session'[i] = session[i]
            /\ last'.inst = i => last'.calls = <<>> /\ last'.outcome.kind = "raise"]_vars

C5_Witness ==
    /\ vna["vna1"]._instr = None
    /\ session["vna1"] = "closed"
    /\ last.method = "close"
    /\ last.calls = <<>>
    /\ last.outcome.kind = "raise"

\* C6: a query-path call on an object that holds its session (a get-or-set method
\* called with exactly "?", or calc_sdat, calc_fdat, calc_mfd) makes exactly one
\* transport call, a query, and returns the reply that query produced, unchanged.
C6_QueryPathOneQueryReplyVerbatim ==
    (QueryPath /\ Live) =>
        /\ Len(last.calls) = 1
        /\ last.calls[1].call = "query"
        /\ last.calls[1].ok => /\ last.calls[1].result \in Replies
                               /\ last.outcome = Return(last.calls[1].result)

C6_Witness ==
    /\ last.method = "power"
    /\ last.args.val = QMark
    /\ last.calls = <<[call |-> "query", cmd |-> <<":", "S", "O", "U", "R", "2", ":", "P", "O", "W", "?">>, ok |-> TRUE, result |-> <<"+", "1", ".", "0", "E", "+", "0", "0", "9">>]>>
    /\ last.outcome = Return(<<"+", "1", ".", "0", "E", "+", "0", "0", "9">>)

C8_OnlyCloseChangesOwnHandle ==
    /\ DOMAIN vna = DOMAIN last.before
    /\ \A i \in DOMAIN vna :
        /\ DOMAIN vna[i] = {"_rm", "_instr"}
        /\ vna[i]._rm = last.before[i]._rm
        /\ vna[i]._instr # last.before[i]._instr => last.inst = i /\ last.method = "close"
    /\ last.method # "close" => vna = last.before

C8_Witness ==
    /\ DOMAIN vna = {"vna1", "vna2"}
    /\ vna["vna1"]._instr = None
    /\ vna["vna2"] = init("vna2")
    /\ last.inst = "vna2"
    /\ last.method = "freq_start"
    /\ last.before = vna
    /\ last.outcome.kind = "return"

\* C9 as claimed: freq_start(1e9, ch=2) writes ":SENS2:FREQ:STAR 1000000000".
C9_AsClaimed ==
    (last.method = "freq_start" /\ last.args.val = PyFloat(1000000000, 0) /\ last.args.ch = 2 /\ Live) =>
        /\ Len(last.calls) = 1
        /\ last.calls[1].call = "write"
        /\ last.calls[1].cmd = <<":", "S", "E", "N", "S", "2", ":", "F", "R", "E", "Q", ":", "S", "T", "A", "R", " ", "1", "0", "0", "0", "0", "0", "0", "0", "0", "0">>

\* C9 amended: freq_start(1e9, ch=2) issues exactly one write, whose command is
\* ":SENS2:FREQ:STAR 1000000000.0": the float 1e9 is rendered as Python's str()
\* renders it, with the trailing ".0".
C9_FloatKeepsPointZero ==
    (last.method = "freq_start" /\ last.args.val = PyFloat(1000000000, 0) /\ last.args.ch = 2 /\ Live) =>
        /\ Len(last.calls) = 1
        /\ last.calls[1].call = "write"
        /\ last.calls[1].cmd = <<":", "S", "E", "N", "S", "2", ":", "F", "R", "E", "Q", ":", "S", "T", "A", "R", " ", "1", "0", "0", "0", "0", "0", "0", "0", "0", "0", ".", "0">>

C9_Witness ==
    /\ last.method = "freq_start"
    /\ last.args.val = PyFloat(1000000000, 0)
    /\ last.args.ch = 2
    /\ Len(last.calls) = 1
    /\ last.calls[1].ok

\* C10: when a transport call raises, the method makes no further transport call
\* (in a calibration step the remaining writes and *OPC? are not issued) and no
\* retry, the caller gets that very exception, and the object still holds its
\* session, which is still open, also when the failing call is close.
C10_FailurePropagates ==
    LET c == last.calls IN
    /\ \A n \in 1..Len(c) : ~c[n].ok =>
        /\ n = Len(c)
        /\ c[n].result \in Errors
        /\ last.outcome = Raise(c[n].result)
        /\ vna = last.before
        /\ vna[last.inst]._instr # None
        /\ session[last.inst] = "open"
    /\ (last.outcome.kind = "raise" /\ ~Dead) => c # <<>> /\ ~c[Len(c)].ok

C10_Witness ==
    /\ last.method = "cal_thru"
    /\ last.outcome = Raise("VisaIOError")
    /\ Len(last.calls) = 1
    /\ ~last.calls[1].ok
    /\ vna[last.inst] = init(last.inst)
    /\ session[last.inst] = "open"
====
